---- MODULE Spec2Model ----
(***************************************************************************)
(* OSOrganicAI: the GitHub webhook gateway (api/webhooks.py), the issue    *)
(* workflow orchestrator (src/workflows/issue_handler.py), the Product     *)
(* Owner and Developer agents (src/agents) and the Supabase store          *)
(* (src/utils/supabase_client.py), as a state machine.                     *)
(*                                                                         *)
(* Every webhook delivery is handled by one worker.  A handler is a chain  *)
(* of steps; a step ends at each access to the conversations table, so     *)
(* that two handlers interleave exactly where the deployed functions can.  *)
(***************************************************************************)
EXTENDS Integers, Sequences, FiniteSets, TLC

VARIABLES
    analysis_readback,  \* how the store hands back conversations.analysis
    conversations,      \* table conversations (sequence of rows, id = index)
    code_generations,   \* table code_generations
    branches,           \* GitHub: branches of the repository
    pulls,              \* GitHub: pull requests
    runs,               \* one record per worker: the delivery it handles
    started,            \* number of deliveries received so far
    call                \* a direct call of a pure function (unit level)

vars == <<analysis_readback, conversations, code_generations,
          branches, pulls, runs, started, call>>

-----------------------------------------------------------------------------
(* Bounds *)

MaxRuns == 3

Procs == {"w1", "w2"}
Issues == {1, 2}
Repo == "org/repo"

-----------------------------------------------------------------------------
(* Strings are sequences of one-character strings. *)

Sha256Prefix == <<"s", "h", "a", "2", "5", "6", "=">>
Sha1Prefix == <<"s", "h", "a", "1", "=">>

NonAscii == {"U+00E9"}

startswith(s, p) == Len(s) >= Len(p) /\ SubSeq(s, 1, Len(p)) = p

\* index of the first c in s at or after position i; Len(s) + 1 when none
find(s, c, i) ==
    IF \E j \in i..Len(s) : s[j] = c
    THEN CHOOSE j \in i..Len(s) : s[j] = c /\ \A k \in i..(j - 1) : s[k] # c
    ELSE Len(s) + 1

\* s.split(c)[1]: the text between the first c and the next c (or the end)
split_1(s, c) ==
    LET i == find(s, c, 1)
        j == find(s, c, i + 1)
    IN  SubSeq(s, i + 1, j - 1)

isascii(s) == \A i \in 1..Len(s) : s[i] \notin NonAscii

\* hmac.compare_digest on two str: TypeError unless both are ASCII
compare_digest(a, b) ==
    IF ~isascii(a) \/ ~isascii(b) THEN "TypeError"
    ELSE IF a = b THEN "True" ELSE "False"

Secrets == {"k1", "k2"}
Bodies == {"b1", "b2"}

\* HMAC-SHA256(secret, payload).hexdigest(), taken to be collision free:
\* one hex digit for the key and one for the message
hexdigest(secret, payload) ==
    << IF secret = "k1" THEN "a" ELSE "c",
       IF payload = "b1" THEN "1" ELSE "2" >>

verify_github_signature_prefix_only(payload, signature, secret) ==
    IF signature = <<>> THEN "False"
    ELSE IF ~startswith(signature, Sha256Prefix) THEN "False"
    ELSE "True"

verify_github_signature(payload, signature, secret) ==
    IF signature = <<>> THEN "False"
    ELSE IF ~startswith(signature, Sha256Prefix) THEN "False"
    ELSE LET expected_signature == split_1(signature, "=")
             computed_signature == hexdigest(secret, payload)
         IN  compare_digest(computed_signature, expected_signature)

\* the header GitHub sends for a payload signed with `secret`
sign(secret, payload) == Sha256Prefix \o hexdigest(secret, payload)

-----------------------------------------------------------------------------
(* Unit level: verify_github_signature called on its own *)

HeaderPrefixes == {Sha256Prefix, Sha1Prefix, <<>>}
HeaderSuffixes == {<<>>, <<"=", "x">>, <<"U+00E9">>}
Headers ==
    {<<>>} \cup
    {p \o hexdigest(k, b) \o s :
        p \in HeaderPrefixes, k \in Secrets, b \in Bodies, s \in HeaderSuffixes}

NoCall == [fn |-> "none"]

\* the calls verify_github_signature(payload, signature, secret)
SignatureCalls ==
    {[fn |-> "verify_github_signature", payload |-> b, signature |-> h,
      secret |-> k, returned |-> "pending"] :
        b \in Bodies, h \in Headers, k \in Secrets}

-----------------------------------------------------------------------------
(* Data *)

NoneStr == "None"          \* Python None where a str is expected
Falsy(s) == s \in {NoneStr, ""}

\* IssueAnalysis (the fields the workflow reads)
Analysis(nc, ic, qs, rd, ac, ls) ==
    [needs_clarification |-> nc, is_complete |-> ic, questions |-> qs,
     refined_description |-> rd, acceptance_criteria |-> ac,
     suggested_labels |-> ls]

NoAnalysis == Analysis(FALSE, FALSE, <<>>, NoneStr, <<>>, <<>>)

\* what the reasoning collaborator may answer, once parsed
Analyses ==
    { Analysis(TRUE, FALSE, <<"q1", "q2">>, NoneStr, <<>>, <<"feature">>),
      Analysis(TRUE, FALSE, <<>>, NoneStr, <<>>, <<>>),
      Analysis(FALSE, TRUE, <<>>, "refined", <<"c1", "c2">>, <<"feature">>),
      Analysis(FALSE, TRUE, <<>>, "refined", <<"c1">>,
               <<"feature", "ready-for-dev">>),
      Analysis(FALSE, TRUE, <<>>, NoneStr, <<>>, <<>>),
      Analysis(TRUE, TRUE, <<"q1">>, "refined", <<"c1">>, <<"feature">>),
      Analysis(FALSE, FALSE, <<>>, NoneStr, <<>>, <<>>) }

\* the analysis column: SQL NULL, the JSON text written by
\* update_conversation_analysis, or a decoded object
NullColumn == [repr |-> "null", value |-> NoAnalysis]
json_dumps(a) == [repr |-> "text", value |-> a]
json_object(a) == [repr |-> "object", value |-> a]

IssueId(n) == 1000 + n

Row(id, n, st, an) ==
    [id |-> id, issue_id |-> IssueId(n), issue_number |-> n,
     repo_full_name |-> Repo, status |-> st, analysis |-> an, turns |-> <<>>]

NoRow == [id |-> 0]

\* the body of a pull request, as far as the gateway reads it: the issue
\* references it holds, in order ("Closes #1" is <<Reference("Closes", 1)>>)
Reference(keyword, n) == [keyword |-> keyword, number |-> n]

\* re.search(r"[Cc]loses #(\d+)", pr_body): the number of the first match,
\* 0 (None) when there is none
re_search(pr_body) ==
    LET matches == {i \in 1..Len(pr_body) :
                       pr_body[i].keyword \in {"Closes", "closes"}}
    IN  IF matches = {} THEN 0
        ELSE pr_body[CHOOSE i \in matches : \A j \in matches : i <= j].number

\* a webhook delivery: the headers and the fields of the JSON envelope the
\* gateway reads.  sig says how the sender signed the body; json is
\* "object" when the body is a JSON object; pr_body_type is the type of
\* pull_request.body once decoded (a pull request opened without a
\* description has "body": null).
Event(type, action, n, label, user, pr_body, sig) ==
    [type |-> type, action |-> action, issue_number |-> n,
     label_name |-> label, user_type |-> user, pr_body |-> pr_body,
     sig |-> sig, json |-> "object", pr_body_type |-> "str"]

\* a properly signed delivery whose body is not JSON: nothing but the
\* X-GitHub-Event header can be read
Malformed(type) ==
    [Event(type, "none", 0, "none", "none", <<>>, "valid")
        EXCEPT !.json = "invalid"]

\* a pull request delivery for a pull request that has no description
NoDescription(action) ==
    [Event("pull_request", action, 0, "none", "none", <<>>, "valid")
        EXCEPT !.pr_body_type = "NoneType"]

NoEvent == Event("none", "none", 0, "none", "none", <<>>, "none")

\* the pull request bodies GitHub sends
PrBodies ==
    { <<>>,
      <<Reference("Closes", 1)>>,
      <<Reference("Fixes", 1), Reference("closes", 2)>>,
      <<Reference("Closes", 1), Reference("Closes", 2)>> }

\* the envelopes GitHub sends
Payloads ==
    {Event("issues", "opened", n, "none", "none", <<>>, "valid") : n \in Issues}
    \cup {Event("issues", "labeled", n, l, "none", <<>>, "valid") :
        n \in Issues, l \in {"ready-for-dev", "bug"}}
    \cup {Event("issues", "closed", n, "none", "none", <<>>, "valid") :
        n \in Issues}
    \cup {Event("issue_comment", a, n, "none", u, <<>>, "valid") :
        a \in {"created", "edited"}, n \in Issues, u \in {"User", "Bot"}}
    \cup {Event("pull_request", "opened", 0, "none", "none", b, "valid") :
        b \in PrBodies}
    \cup {Event("pull_request", "closed", 0, "none", "none", b, "valid") :
        b \in {<<Reference("Closes", 1)>>}}
    \cup {NoDescription(a) : a \in {"opened", "closed"}}
    \cup {Event(t, "none", 0, "none", "none", <<>>, "valid") :
        t \in {"ping", "push"}}

\* the envelopes that make a handler call a collaborator
Effectful(ev) ==
    \/ ev.type = "issues" /\ ev.action = "opened"
    \/ ev.type = "issues" /\ ev.action = "labeled"
           /\ ev.label_name = "ready-for-dev"
    \/ ev.type = "issue_comment" /\ ev.action = "created"
           /\ ev.user_type = "User"
    \/ ev.type = "pull_request" /\ ev.action = "opened"
           /\ re_search(ev.pr_body) # 0

\* deliveries: every envelope properly signed, and the envelopes worth
\* forging with a bad or a missing signature
Events ==
    Payloads \cup
    {[ev EXCEPT !.sig = g] :
        ev \in {e \in Payloads : Effectful(e)}, g \in {"forged", "missing"}}
    \cup {Malformed("issues"), Malformed("ping")}

\* settings.github_webhook_secret
WebhookSecret == "k1"

\* the request body (bytes) and the X-Hub-Signature-256 header of a delivery
BodyOf(ev) == "b1"
SignatureOf(ev) ==
    CASE ev.sig = "valid" -> sign(WebhookSecret, BodyOf(ev))
      [] ev.sig = "forged" -> sign("k2", BodyOf(ev))
      [] OTHER -> <<>>

\* JSONResponse(content={"status": ..., "message": ...}, status_code=...)
JSONResponse(code, status, message) ==
    [status_code |-> code, status |-> status, message |-> message,
     conversation_status |-> NoneStr, pr_number |-> 0]

NoResponse == JSONResponse(0, "none", "none")

\* raise HTTPException(status_code=401, detail="Invalid signature")
HTTP401 == JSONResponse(401, "none", "Invalid signature")

\* the except-Exception arm of github_webhook
HTTP500(e) == JSONResponse(500, "error", e)

\* CodeGeneration (the fields create_pull_request reads); the pull request
\* description is its text and the issues it says it closes
CodeGeneration(branch, files, tests, closes) ==
    [branch_name |-> branch, files_to_create |-> files, test_files |-> tests,
     pr_description |-> [text |-> "summary", closes |-> closes]]

NoGeneration == CodeGeneration("none", <<>>, <<>>, <<>>)

\* what the reasoning collaborator may answer to the Developer agent
CodeGenerations ==
    { CodeGeneration("feature/x", <<"a.py", "b.py">>, <<"test_a.py">>, <<>>),
      CodeGeneration("feature/x", <<"a.py">>, <<>>, <<1>>),
      CodeGeneration("feature/x", <<"a.py">>, <<>>, <<1, 1>>) }

IdleRun ==
    [pc |-> "idle", event |-> NoEvent, redelivery |-> "no",
     create_agents |-> "returns",
     handler |-> "none", conversation_id |-> 0, conversation |-> NoRow,
     analysis |-> NoAnalysis, generation |-> NoGeneration,
     verified |-> "none", llm_calls |-> 0, responses |-> 0,
     calls |-> <<>>, vcs_calls |-> <<>>,
     store_writes |-> 0, agent_actions |-> <<>>,
     code_agent_calls |-> <<>>, raised |-> <<>>, result |-> "none",
     response |-> NoResponse]

-----------------------------------------------------------------------------
(* Initial state: empty tables, a repository with its default branch *)

Init ==
    /\ analysis_readback \in {"text", "object"}
    /\ conversations = <<>>
    /\ code_generations = <<>>
    /\ branches = {"main"}
    /\ pulls = <<>>
    /\ runs = [p \in Procs |-> IdleRun]
    /\ started = 0
    /\ call = NoCall

-----------------------------------------------------------------------------
(* The store (SupabaseClient) *)

Key(row) == <<row.repo_full_name, row.issue_number>>

Matching(n) ==
    {i \in 1..Len(conversations) :
        conversations[i].issue_number = n /\ conversations[i].repo_full_name = Repo}

\* what a select hands back for the analysis column
Readback(col) ==
    IF col.repr = "text" /\ analysis_readback = "object"
    THEN json_object(col.value) ELSE col

\* get_conversation: response.data[0], or None (NoRow)
get_conversation(n) ==
    IF Matching(n) = {} THEN NoRow
    ELSE LET i == CHOOSE i \in Matching(n) : \A j \in Matching(n) : i <= j
         IN  [conversations[i] EXCEPT !.analysis = Readback(@)]

UniqueViolation_unenforced(n) == FALSE

\* the uniqueness constraint on (repo_full_name, issue_number)
UniqueViolation(n) == Matching(n) # {}

\* create_conversation: the row inserted, status "analyzing", no analysis
NewConversation(n) == Row(Len(conversations) + 1, n, "analyzing", NullColumn)

\* log_agent_action: the row inserted
ActionRow(conversation_id, agent_type, action_type) ==
    [conversation_id |-> conversation_id, agent_type |-> agent_type,
     action_type |-> action_type, status |-> "success"]

\* create_code_generation: the row inserted
GenerationRow(conversation_id, pr_number, status) ==
    [conversation_id |-> conversation_id, pr_number |-> pr_number,
     status |-> status, error_message |-> NoneStr]

-----------------------------------------------------------------------------
(* The gateway: github_webhook *)

\* the handler returns: the response goes out and the worker is free
Finish(r, resp) ==
    [r EXCEPT !.pc = "done", !.response = resp]

Raise_as_401(r, e) == Finish(r, HTTP401)

\* an exception reaches the except-Exception arm of github_webhook
Raise(r, e) == Finish(r, HTTP500(e))

Goto(r, pc) == [r EXCEPT !.pc = pc]

Ignored(message) == JSONResponse(200, "ignored", message)
Success(message) == JSONResponse(200, "success", message)

handle_issues_event_any_label(r) ==
    LET ev == r.event IN
    IF ev.action = "opened"
    THEN Goto([r EXCEPT !.handler = "handle_new_issue"], "get_or_create")
    ELSE IF ev.action = "labeled"
    THEN Goto([r EXCEPT !.handler = "handle_label_added"], "label_get")
    ELSE Finish(r, Ignored("Action not handled"))

\* handle_issues_event, up to the first call of the orchestrator that
\* touches a collaborator
handle_issues_event(r) ==
    LET ev == r.event IN
    IF ev.action = "opened"
    THEN Goto([r EXCEPT !.handler = "handle_new_issue"], "get_or_create")
    ELSE IF ev.action = "labeled"
    THEN IF ev.label_name # "ready-for-dev"
         THEN Finish([r EXCEPT !.handler = "handle_label_added"],
                     Ignored("Label not a trigger"))
         ELSE Goto([r EXCEPT !.handler = "handle_label_added"], "label_get")
    ELSE Finish(r, Ignored("Action not handled"))

handle_issue_comment_event_bots_heard(r) ==
    LET ev == r.event IN
    IF ev.action = "created"
    THEN Goto([r EXCEPT !.handler = "handle_issue_comment"], "comment_get")
    ELSE Finish(r, Ignored("Action not handled"))

\* handle_issue_comment_event, up to the call of the orchestrator
handle_issue_comment_event(r) ==
    LET ev == r.event IN
    IF ev.user_type = "Bot" THEN Finish(r, Ignored("Bot comment"))
    ELSE IF ev.action = "created"
    THEN Goto([r EXCEPT !.handler = "handle_issue_comment"], "comment_get")
    ELSE Finish(r, Ignored("Action not handled"))

\* the issue number the gateway extracts from the pull request body
handle_pull_request_event(r) ==
    LET ev == r.event
        issue_number == re_search(ev.pr_body)
    IN  IF ev.pr_body_type # "str" THEN Raise(r, "TypeError")
        ELSE IF ev.action = "opened"
        THEN IF issue_number # 0
             THEN Goto([r EXCEPT !.handler = "handle_pr_opened"], "pr_get")
             ELSE Finish([r EXCEPT !.handler = "handle_pr_opened"],
                         Success("PR event processed"))
        ELSE Finish(r, Ignored("Action not handled"))

github_webhook_unverified(r0) ==
    LET ev == r0.event
        r == [r0 EXCEPT !.verified =
                 verify_github_signature(BodyOf(ev), SignatureOf(ev),
                                         WebhookSecret)]
    IN  IF ev.json # "object" THEN Raise(r, "JSONDecodeError")
        ELSE IF r.create_agents = "raises" THEN Raise(r, "GithubException")
        ELSE IF ev.type = "issues" THEN handle_issues_event(r)
        ELSE IF ev.type = "issue_comment" THEN handle_issue_comment_event(r)
        ELSE IF ev.type = "pull_request" THEN handle_pull_request_event(r)
        ELSE IF ev.type = "ping" THEN Finish(r, Success("Pong!"))
        ELSE Finish(r, Ignored("Event type not handled"))

\* github_webhook, up to the first call that touches a collaborator
github_webhook(r0) ==
    LET ev == r0.event
        verified == verify_github_signature(BodyOf(ev), SignatureOf(ev),
                                            WebhookSecret)
        r == [r0 EXCEPT !.verified = verified]
    IN  IF verified = "TypeError" THEN Raise(r, "TypeError")
        ELSE IF verified = "False" THEN Finish(r, HTTP401)
        ELSE IF ev.json # "object" THEN Raise(r, "JSONDecodeError")
        ELSE IF r.create_agents = "raises" THEN Raise(r, "GithubException")
        ELSE IF ev.type = "issues" THEN handle_issues_event(r)
        ELSE IF ev.type = "issue_comment" THEN handle_issue_comment_event(r)
        ELSE IF ev.type = "pull_request" THEN handle_pull_request_event(r)
        ELSE IF ev.type = "ping" THEN Finish(r, Success("Pong!"))
        ELSE Finish(r, Ignored("Event type not handled"))

\* a free worker takes a delivery, verifies it and routes it; re is "no"
\* for a first delivery
Route(p, ev, re) ==
    /\ runs[p].pc \in {"idle", "done"}
    /\ runs' = [runs EXCEPT ![p] =
           github_webhook([IdleRun EXCEPT !.event = ev, !.redelivery = re])]
    /\ UNCHANGED <<analysis_readback, conversations, code_generations,
                   branches, pulls, call>>

\* a delivery arrives, one of at most MaxRuns
Receive(p, ev, re) ==
    /\ started < MaxRuns
    /\ Route(p, ev, re)
    /\ started' = started + 1

Deliver(p, events) == \E ev \in events : Receive(p, ev, "no")

\* a delivery arrives while create_agents cannot build the clients (the
\* repository lookup of the GitHub client raises)
AgentsFail(p, events) ==
    /\ started < MaxRuns
    /\ runs[p].pc \in {"idle", "done"}
    /\ \E ev \in events :
           runs' = [runs EXCEPT ![p] =
               github_webhook([IdleRun EXCEPT !.event = ev,
                                              !.create_agents = "raises"])]
    /\ started' = started + 1
    /\ UNCHANGED <<analysis_readback, conversations, code_generations,
                   branches, pulls, call>>

\* GitHub sends again the delivery the worker has answered (same
\* X-GitHub-Delivery, same body); the new run remembers how the first
\* delivery was answered
Redeliver(p) ==
    /\ runs[p].pc = "done"
    /\ Receive(p, runs[p].event, runs[p].response.status)

-----------------------------------------------------------------------------
(* Calls to the collaborators that a worker makes in a row, without        *)
(* reading the conversations table in between                              *)

\* enumerate(items, 1)
enumerate(items) ==
    [i \in 1..Len(items) |-> [number |-> i, text |-> items[i]]]

Range(f) == {f[i] : i \in DOMAIN f}

CreateComment(n, body) ==
    [op |-> "create_issue_comment", issue_number |-> n, body |-> body]
AddLabels(n, labels) ==
    [op |-> "add_labels_to_issue", issue_number |-> n, labels |-> labels]
RemoveLabels(n, labels) ==
    [op |-> "remove_labels_from_issue", issue_number |-> n, labels |-> labels]
BranchExists(name) ==
    [op |-> "branch_exists", branch_name |-> name]
CreateBranch(name) ==
    [op |-> "create_branch", branch_name |-> name]
WriteFile(path, branch) ==
    [op |-> "create_or_update_file", file_path |-> path, branch |-> branch]
CreatePull(head, body) ==
    [op |-> "create_pull_request", head_branch |-> head, body |-> body]
LinkIssue(pr_number, n) ==
    [op |-> "link_issue_to_pr", pr_number |-> pr_number, issue_number |-> n]
LogAction(conversation_id, agent_type, action_type) ==
    [op |-> "log_action",
     row |-> ActionRow(conversation_id, agent_type, action_type)]
CreateGeneration(conversation_id, pr_number, status) ==
    [op |-> "create_code_generation",
     row |-> GenerationRow(conversation_id, pr_number, status)]
UpdateGeneration(status, error_message) ==
    [op |-> "update_code_generation_status", status |-> status,
     error_message |-> error_message]

StoreOps == {"log_action", "create_code_generation",
             "update_code_generation_status"}

IsVcs(c) == c.op \notin StoreOps

ErrorOf(c) == IF IsVcs(c) THEN "GithubException" ELSE "APIError"

\* link_issue_to_pr: "Closes #N" is appended unless the body holds it
link_issue_to_pr(body, n) ==
    IF n \in Range(body.closes) THEN body
    ELSE [body EXCEPT !.closes = Append(@, n)]

\* the worker and the collaborators' state it has changed
World(r) ==
    [run |-> r, branches |-> branches, pulls |-> pulls,
     code_generations |-> code_generations]

\* the world after call c
After(w, c) ==
    IF IsVcs(c)
    THEN LET v == [w EXCEPT !.run.calls = Append(@, c),
                            !.run.vcs_calls = Append(@, c)] IN
         IF c.op = "create_branch"
         THEN [v EXCEPT !.branches = @ \cup {c.branch_name}]
         ELSE IF c.op = "create_pull_request"
         THEN [v EXCEPT !.pulls =
                  Append(@, [number |-> Len(@) + 1, head |-> c.head_branch,
                             base |-> "main", body |-> c.body,
                             opened_with |-> c.body, delivered |-> 0])]
         ELSE IF c.op = "link_issue_to_pr"
         THEN [v EXCEPT !.pulls[c.pr_number].body =
                  link_issue_to_pr(@, c.issue_number)]
         ELSE v
    ELSE LET v == [w EXCEPT !.run.calls = Append(@, c),
                            !.run.store_writes = @ + 1] IN
         IF c.op = "log_action"
         THEN [v EXCEPT !.run.agent_actions = Append(@, c.row)]
         ELSE IF c.op = "create_code_generation"
         THEN [v EXCEPT !.code_generations = Append(@, c.row)]
         ELSE LET generation_id == Len(w.code_generations) IN
              [v EXCEPT !.code_generations[generation_id].status = c.status,
                        !.code_generations[generation_id].error_message =
                            c.error_message]

\* the world after the first k calls
RECURSIVE AfterCalls(_, _, _)
AfterCalls(w, calls, k) ==
    IF k = 0 THEN w ELSE After(AfterCalls(w, calls, k - 1), calls[k])

\* call c raises e, which reaches the gateway
RaiseFrom(r, c) ==
    Raise([r EXCEPT !.raised = Append(@, c)], ErrorOf(c))

\* one step of worker p: it is left in state w.run
Step(p, w) ==
    /\ runs' = [runs EXCEPT ![p] = w.run]
    /\ branches' = w.branches
    /\ pulls' = w.pulls
    /\ code_generations' = w.code_generations

-----------------------------------------------------------------------------
(* The orchestrator and the Product Owner agent *)

\* tenacity: stop_after_attempt(max_retries)
max_retries == 3

\* the errors of the successive attempts of one invoke_with_retry: the call
\* succeeds at attempt Len(errs) + 1 when that is within max_retries
RetrySchedules ==
    {<<>>, <<"timeout">>, <<"timeout", "timeout", "auth">>}

\* the status a handler persists and returns for an analysis
StatusFor(handler, analysis) ==
    IF handler = "handle_new_issue"
    THEN IF analysis.needs_clarification
         THEN "needs_clarification" ELSE "ready_for_dev"
    ELSE IF analysis.is_complete
         THEN "ready_for_dev" ELSE "needs_clarification"

\* the handler returns its ConversationState to the gateway
ReturnState(r) ==
    Finish(r, [Success(IF r.handler = "handle_new_issue"
                       THEN "Issue analyzed" ELSE "Comment processed")
                 EXCEPT !.conversation_status = StatusFor(r.handler, r.analysis)])

\* ask_clarifying_questions
ask_clarifying_questions(n, questions) ==
    << CreateComment(n, [kind |-> "clarification", description |-> "",
                         lines |-> enumerate(questions)]),
       AddLabels(n, <<"needs-clarification">>),
       LogAction(0, "ProductOwnerAgent", "questions_asked") >>

\* mark_ready_for_development
mark_ready_for_development(n, refined_description, acceptance_criteria, suggested_labels) ==
    << CreateComment(n, [kind |-> "refined", description |-> refined_description,
                         lines |-> enumerate(acceptance_criteria)]),
       RemoveLabels(n, <<"needs-clarification">>),
       AddLabels(n, suggested_labels \o <<"ready-for-dev">>),
       LogAction(0, "ProductOwnerAgent", "marked_ready_for_dev") >>

\* refined_description or issue_body / refined_description or ""
DescriptionShown(r) ==
    IF ~Falsy(r.analysis.refined_description)
    THEN r.analysis.refined_description
    ELSE IF r.handler = "handle_new_issue" THEN "issue_body" ELSE ""

\* "Take action based on analysis": the calls that follow the two updates
ActionCalls(r) ==
    LET a == r.analysis
        n == r.event.issue_number
    IN  IF a.needs_clarification THEN ask_clarifying_questions(n, a.questions)
        ELSE IF a.is_complete
        THEN mark_ready_for_development(n, DescriptionShown(r),
                                        a.acceptance_criteria, a.suggested_labels)
        ELSE <<>>

\* get_or_create_conversation: the lookup
GetOrCreate(p) ==
    LET r == runs[p]
        conversation == get_conversation(r.event.issue_number)
    IN  /\ r.pc = "get_or_create"
        /\ runs' = [runs EXCEPT ![p] =
               IF conversation # NoRow
               THEN Goto([r EXCEPT !.conversation_id = conversation.id,
                                   !.conversation = conversation],
                         "analyze")
               ELSE Goto(r, "create_conversation")]
        /\ UNCHANGED <<analysis_readback, conversations, code_generations,
                       branches, pulls, started, call>>

\* get_or_create_conversation: create_conversation
CreateConversation(p) ==
    LET r == runs[p]
        n == r.event.issue_number
        row == NewConversation(n)
    IN  /\ r.pc = "create_conversation"
        /\ IF UniqueViolation(n)
           THEN /\ runs' = [runs EXCEPT ![p] = Raise(r, "APIError")]
                /\ UNCHANGED conversations
           ELSE /\ conversations' = Append(conversations, row)
                /\ runs' = [runs EXCEPT ![p] =
                       Goto([r EXCEPT !.conversation_id = row.id,
                                      !.conversation = row,
                                      !.store_writes = @ + 1],
                            "analyze")]
        /\ UNCHANGED <<analysis_readback, code_generations,
                       branches, pulls, started, call>>

Invoke_failure_announced(r, errs, parsed, out, log, logged, field, pc) ==
    IF Len(errs) >= max_retries
    THEN Raise([r EXCEPT !.llm_calls = @ + max_retries,
                         !.vcs_calls = Append(@,
                             CreateComment(r.event.issue_number,
                                 [kind |-> "clarification", description |-> "",
                                  lines |-> <<>>]))],
               "RetryError")
    ELSE LET called == [r EXCEPT !.llm_calls = @ + Len(errs) + 1,
                                 !.responses = @ + 1] IN
         IF ~parsed THEN Raise(called, "OutputParserException")
         ELSE IF ~logged THEN Raise(called, ErrorOf(log))
         ELSE Goto([called EXCEPT ![field] = out,
                                  !.calls = Append(@, log),
                                  !.agent_actions = Append(@, log.row),
                                  !.store_writes = @ + 1], pc)

Invoke_parse_retried(r, errs, parsed, out, log, logged, field, pc) ==
    IF Len(errs) >= max_retries
    THEN Raise([r EXCEPT !.llm_calls = @ + max_retries], "RetryError")
    ELSE LET called == [r EXCEPT !.llm_calls = @ + Len(errs) + 1,
                                 !.responses = @ + 1]
             again == [called EXCEPT !.llm_calls = @ + 1, !.responses = @ + 1]
         IN
         IF ~parsed THEN Raise(again, "OutputParserException")
         ELSE IF ~logged THEN Raise(called, ErrorOf(log))
         ELSE Goto([called EXCEPT ![field] = out,
                                  !.calls = Append(@, log),
                                  !.agent_actions = Append(@, log.row),
                                  !.store_writes = @ + 1], pc)

\* invoke_with_retry, the output parser and the log_action that follows:
\* the worker after them, given the errors of the attempts, whether the
\* model's answer parses, the parsed answer, whether the audit row could
\* be written, and where to go on
Invoke(r, errs, parsed, out, log, logged, field, pc) ==
    IF Len(errs) >= max_retries
    THEN Raise([r EXCEPT !.llm_calls = @ + max_retries], "RetryError")
    ELSE LET called == [r EXCEPT !.llm_calls = @ + Len(errs) + 1,
                                 !.responses = @ + 1] IN
         IF ~parsed THEN Raise(called, "OutputParserException")
         ELSE IF ~logged THEN Raise(called, ErrorOf(log))
         ELSE Goto([called EXCEPT ![field] = out,
                                  !.calls = Append(@, log),
                                  !.agent_actions = Append(@, log.row),
                                  !.store_writes = @ + 1], pc)

\* what the environment may do to a call: with faults, any outcome; without,
\* the call succeeds
Schedules(faults) == IF faults THEN RetrySchedules ELSE {<<>>}
Outcomes(faults) == IF faults THEN BOOLEAN ELSE {TRUE}
FailurePoints(calls, faults) ==
    IF faults THEN 0..Len(calls) ELSE {Len(calls)}

\* analyze_issue / process_user_response
Analyze(p, faults) ==
    LET r == runs[p]
        log == IF r.handler = "handle_new_issue"
               THEN LogAction(0, "ProductOwnerAgent", "issue_analyzed")
               ELSE LogAction(r.conversation_id, "ProductOwnerAgent",
                              "user_response_processed")
    IN
    /\ r.pc = "analyze"
    /\ \E errs \in Schedules(faults), parsed \in Outcomes(faults),
          out \in Analyses, logged \in Outcomes(faults) :
          runs' = [runs EXCEPT ![p] =
              Invoke(r, errs, parsed, out, log, logged,
                     "analysis", "update_status")]
    /\ UNCHANGED <<analysis_readback, conversations, code_generations,
                   branches, pulls, started, call>>

\* update_conversation_state: update_conversation_status
UpdateStatus(p) ==
    LET r == runs[p]
        id == r.conversation_id
        status == StatusFor(r.handler, r.analysis)
    IN  /\ r.pc = "update_status"
        /\ conversations' = [conversations EXCEPT ![id].status = status]
        /\ runs' = [runs EXCEPT ![p] =
               Goto([r EXCEPT !.store_writes = @ + 1], "update_analysis")]
        /\ UNCHANGED <<analysis_readback, code_generations,
                       branches, pulls, started, call>>

\* update_conversation_state: update_conversation_analysis; a handler with
\* nothing to post returns here
UpdateAnalysis(p) ==
    LET r == runs[p]
        id == r.conversation_id
        column == json_dumps(r.analysis)
        after == [r EXCEPT !.store_writes = @ + 1]
    IN  /\ r.pc = "update_analysis"
        /\ conversations' = [conversations EXCEPT ![id].analysis = column]
        /\ runs' = [runs EXCEPT ![p] =
               IF ActionCalls(r) = <<>> THEN ReturnState(after)
               ELSE Goto(after, "take_action")]
        /\ UNCHANGED <<analysis_readback, code_generations,
                       branches, pulls, started, call>>

\* ask_clarifying_questions or mark_ready_for_development, then the return
\* to the gateway; the first k calls succeed, and call k + 1 (if any) raises
TakeAction(p, faults) ==
    LET r == runs[p]
        calls == ActionCalls(r)
    IN  /\ r.pc = "take_action"
        /\ \E k \in FailurePoints(calls, faults) :
              LET w == AfterCalls(World(r), calls, k) IN
              Step(p, IF k = Len(calls)
                      THEN [w EXCEPT !.run = ReturnState(@)]
                      ELSE [w EXCEPT !.run = RaiseFrom(@, calls[k + 1])])
        /\ UNCHANGED <<analysis_readback, conversations, started, call>>

CommentGet_any_status(p) ==
    LET r == runs[p]
        conversation == get_conversation(r.event.issue_number)
    IN  /\ r.pc = "comment_get"
        /\ runs' = [runs EXCEPT ![p] =
               IF conversation = NoRow
               THEN Finish(r, Ignored("No active conversation"))
               ELSE Goto([r EXCEPT !.conversation_id = conversation.id,
                                   !.conversation = conversation],
                         "analyze")]
        /\ UNCHANGED <<analysis_readback, conversations, code_generations,
                       branches, pulls, started, call>>

\* handle_issue_comment: get_conversation and the two early returns
CommentGet(p) ==
    LET r == runs[p]
        conversation == get_conversation(r.event.issue_number)
    IN  /\ r.pc = "comment_get"
        /\ runs' = [runs EXCEPT ![p] =
               IF conversation = NoRow
               THEN Finish(r, Ignored("No active conversation"))
               ELSE IF conversation.status # "needs_clarification"
               THEN Finish(r, Ignored("No active conversation"))
               ELSE Goto([r EXCEPT !.conversation_id = conversation.id,
                                   !.conversation = conversation],
                         "analyze")]
        /\ UNCHANGED <<analysis_readback, conversations, code_generations,
                       branches, pulls, started, call>>

\* handle_pr_opened: get_conversation
PrGet(p) ==
    LET r == runs[p]
        conversation == get_conversation(re_search(r.event.pr_body))
    IN  /\ r.pc = "pr_get"
        /\ runs' = [runs EXCEPT ![p] =
               IF conversation = NoRow
               THEN Finish(r, Success("PR event processed"))
               ELSE Goto([r EXCEPT !.conversation_id = conversation.id,
                                   !.conversation = conversation],
                         "pr_update")]
        /\ UNCHANGED <<analysis_readback, conversations, code_generations,
                       branches, pulls, started, call>>

\* handle_pr_opened: update_conversation_state(status="in_development")
PrUpdate(p) ==
    LET r == runs[p]
        id == r.conversation_id
    IN  /\ r.pc = "pr_update"
        /\ conversations' = [conversations EXCEPT ![id].status = "in_development"]
        /\ runs' = [runs EXCEPT ![p] =
               Finish([r EXCEPT !.store_writes = @ + 1],
                      Success("PR event processed"))]
        /\ UNCHANGED <<analysis_readback, code_generations,
                       branches, pulls, started, call>>

-----------------------------------------------------------------------------
(* handle_label_added and the Developer agent *)

LabelGet_marks_in_development(p) ==
    LET r == runs[p]
        n == r.event.issue_number
        conversation == get_conversation(n)
        analysis == conversation.analysis
        requirements == analysis.value.refined_description
        acceptance_criteria == analysis.value.acceptance_criteria
    IN  /\ r.pc = "label_get"
        /\ runs' = [runs EXCEPT ![p] =
               IF conversation = NoRow
               THEN Finish(r, Ignored("Label not a trigger"))
               ELSE IF analysis.repr # "object"
               THEN Raise(r, "AttributeError")
               ELSE IF Falsy(requirements)
               THEN Finish(r, Ignored("Label not a trigger"))
               ELSE Goto([r EXCEPT
                             !.conversation_id = conversation.id,
                             !.conversation = conversation,
                             !.code_agent_calls = Append(@,
                                 [conversation_id |-> conversation.id,
                                  issue_number |-> n,
                                  requirements |-> requirements,
                                  acceptance_criteria |-> acceptance_criteria])],
                         "generate_code")]
        /\ conversations' =
               IF runs'[p].pc = "generate_code"
               THEN [conversations EXCEPT
                        ![conversation.id].status = "in_development"]
               ELSE conversations
        /\ UNCHANGED <<analysis_readback, code_generations,
                       branches, pulls, started, call>>

\* handle_label_added: get_conversation, the requirements read from the
\* analysis column, and the call of the Developer agent
LabelGet(p) ==
    LET r == runs[p]
        n == r.event.issue_number
        conversation == get_conversation(n)
        analysis == conversation.analysis
        requirements == analysis.value.refined_description
        acceptance_criteria == analysis.value.acceptance_criteria
    IN  /\ r.pc = "label_get"
        /\ runs' = [runs EXCEPT ![p] =
               IF conversation = NoRow
               THEN Finish(r, Ignored("Label not a trigger"))
               ELSE IF analysis.repr # "object"
               THEN Raise(r, "AttributeError")
               ELSE IF Falsy(requirements)
               THEN Finish(r, Ignored("Label not a trigger"))
               ELSE Goto([r EXCEPT
                             !.conversation_id = conversation.id,
                             !.conversation = conversation,
                             !.code_agent_calls = Append(@,
                                 [conversation_id |-> conversation.id,
                                  issue_number |-> n,
                                  requirements |-> requirements,
                                  acceptance_criteria |-> acceptance_criteria])],
                         "generate_code")]
        /\ UNCHANGED <<analysis_readback, conversations, code_generations,
                       branches, pulls, started, call>>

\* generate_code
GenerateCode(p, faults) ==
    LET r == runs[p]
        log == LogAction(0, "DeveloperAgent", "code_generated")
    IN
    /\ r.pc = "generate_code"
    /\ \E errs \in Schedules(faults), parsed \in Outcomes(faults),
          out \in CodeGenerations, logged \in Outcomes(faults) :
          runs' = [runs EXCEPT ![p] =
              Invoke(r, errs, parsed, out, log, logged,
                     "generation", "create_pull_request")]
    /\ UNCHANGED <<analysis_readback, conversations, code_generations,
                   branches, pulls, started, call>>

\* what branch_exists may answer: whether the branch is there, or False
\* when the lookup raises GithubException for another reason
BranchChecks(name, faults) ==
    {name \in branches} \cup (IF faults THEN {FALSE} ELSE {})

PullRequestCalls_pull_before_tests(r, exists) ==
    LET g == r.generation
        n == r.event.issue_number
        id == r.conversation_id
        pr_number == Len(pulls) + 1
    IN  <<BranchExists(g.branch_name)>>
        \o (IF exists THEN <<>> ELSE <<CreateBranch(g.branch_name)>>)
        \o [i \in 1..Len(g.files_to_create) |->
               WriteFile(g.files_to_create[i], g.branch_name)]
        \o << CreatePull(g.branch_name, g.pr_description) >>
        \o [i \in 1..Len(g.test_files) |->
               WriteFile(g.test_files[i], g.branch_name)]
        \o << LinkIssue(pr_number, n),
               CreateGeneration(id, pr_number, "pr_created"),
               LogAction(id, "DeveloperAgent", "pr_created") >>

\* the calls in the try block of create_pull_request, given the answer of
\* branch_exists
PullRequestCalls(r, exists) ==
    LET g == r.generation
        n == r.event.issue_number
        id == r.conversation_id
        pr_number == Len(pulls) + 1
    IN  <<BranchExists(g.branch_name)>>
        \o (IF exists THEN <<>> ELSE <<CreateBranch(g.branch_name)>>)
        \o [i \in 1..Len(g.files_to_create) |->
               WriteFile(g.files_to_create[i], g.branch_name)]
        \o [i \in 1..Len(g.test_files) |->
               WriteFile(g.test_files[i], g.branch_name)]
        \o << CreatePull(g.branch_name, g.pr_description),
               LinkIssue(pr_number, n),
               CreateGeneration(id, pr_number, "pr_created"),
               LogAction(id, "DeveloperAgent", "pr_created") >>

FailureCalls_no_message(r, e) ==
    << CreateGeneration(r.conversation_id, 0, "failed") >>

\* the calls in the except arm of create_pull_request
FailureCalls(r, e) ==
    << CreateGeneration(r.conversation_id, 0, "failed"),
       UpdateGeneration("failed", e) >>

\* where the try block may stop: branch_exists never raises, and
\* create_branch raises when the branch is there
TryPoints(r, exists, faults) ==
    LET calls == PullRequestCalls(r, exists) IN
    IF ~exists /\ r.generation.branch_name \in branches THEN {1}
    ELSE FailurePoints(calls, faults) \ {0}

\* create_pull_request and the rest of handle_ready_for_dev_issue: the
\* first k calls of the try block succeed; when call k + 1 raises, the
\* except arm records the failure; otherwise the issue is notified.  Of
\* the calls that follow, the first j succeed.
CreatePullRequest(p, faults) ==
    LET r == runs[p]
        n == r.event.issue_number
        pr_number == Len(pulls) + 1
    IN  /\ r.pc = "create_pull_request"
        /\ \E exists \in BranchChecks(r.generation.branch_name, faults) :
           \E k \in TryPoints(r, exists, faults) :
              LET calls == PullRequestCalls(r, exists)
                  created == (k = Len(calls))
                  tried == AfterCalls(World(r), calls, k)
                  caught == IF created THEN tried
                            ELSE [tried EXCEPT !.run.raised =
                                     Append(@, calls[k + 1])]
                  rest == IF created
                          THEN <<CreateComment(n,
                                    [kind |-> "pr_created", description |-> "",
                                     lines |-> <<>>])>>
                          ELSE FailureCalls(r, ErrorOf(calls[k + 1]))
              IN  \E j \in FailurePoints(rest, faults) :
                     LET w == AfterCalls(caught, rest, j) IN
                     Step(p, IF j < Len(rest)
                             THEN [w EXCEPT !.run = RaiseFrom(@, rest[j + 1])]
                             ELSE [w EXCEPT !.run =
                                 Finish([@ EXCEPT !.result =
                                            IF created THEN "pr_created"
                                            ELSE "failed"],
                                        [Success("Development triggered")
                                            EXCEPT !.pr_number =
                                                IF created THEN pr_number
                                                ELSE 0])])
        /\ UNCHANGED <<analysis_readback, conversations, started, call>>

-----------------------------------------------------------------------------
(* Failures of the store, and the next-state relation *)

\* the store call a worker is about to make raises APIError, which
\* reaches the gateway
StoreSteps == {"get_or_create", "create_conversation", "update_status",
               "update_analysis", "comment_get", "pr_get", "pr_update",
               "label_get"}

CallFails(p) ==
    LET r == runs[p] IN
    /\ r.pc \in StoreSteps
    /\ runs' = [runs EXCEPT ![p] = Raise(r, "APIError")]
    /\ UNCHANGED <<analysis_readback, conversations, code_generations,
                   branches, pulls, started, call>>

\* the steps of a handler
Handle(p, faults) ==
    \/ GetOrCreate(p)
    \/ CreateConversation(p)
    \/ Analyze(p, faults)
    \/ UpdateStatus(p)
    \/ UpdateAnalysis(p)
    \/ TakeAction(p, faults)
    \/ CommentGet(p)
    \/ PrGet(p)
    \/ PrUpdate(p)
    \/ LabelGet(p)
    \/ GenerateCode(p, faults)
    \/ CreatePullRequest(p, faults)

\* deliveries handled one at a time, every delivery and every failure of
\* a collaborator possible
Next ==
    \/ Deliver("w1", Events)
    \/ AgentsFail("w1", {ev \in Payloads : Effectful(ev)})
    \/ Redeliver("w1")
    \/ Handle("w1", TRUE)
    \/ CallFails("w1")

Spec == Init /\ [][Next]_vars

\* overlapping deliveries: two workers, the properly signed deliveries
\* that reach a collaborator, and collaborators that answer
OverlapEvents ==
    {ev \in Payloads : /\ Effectful(ev)
                       /\ ev.issue_number \in {0, 1}
                       /\ ev.pr_body \in {<<>>, <<Reference("Closes", 1)>>}}

NextOverlap ==
    \E p \in Procs :
        Deliver(p, OverlapEvents) \/ Redeliver(p) \/ Handle(p, FALSE)

SpecOverlap == Init /\ [][NextOverlap]_vars

\* the clarification loop: issue 1 is opened, once, and then commented on
\* by a user, any number of times; the collaborators answer.  A handler
\* that has started runs to its end.
ClarificationEvents ==
    {ev \in OverlapEvents : ev.type = "issue_comment" \/ ev.action = "opened"}

Comment(p) ==
    /\ \E ev \in ClarificationEvents :
           /\ ev.action = "opened" <=> conversations = <<>>
           /\ Route(p, ev, "no")
    /\ UNCHANGED started

Refine(p) ==
    \/ GetOrCreate(p)
    \/ CreateConversation(p)
    \/ CommentGet(p)
    \/ Analyze(p, FALSE)
    \/ UpdateStatus(p)
    \/ UpdateAnalysis(p)
    \/ TakeAction(p, FALSE)

NextClarification == Comment("w1") \/ Refine("w1")

SpecClarification ==
    Init /\ [][NextClarification]_vars /\ WF_vars(Refine("w1"))

-----------------------------------------------------------------------------
(* Unit level: verify_github_signature on every body, header and secret *)

InitSignature ==
    /\ analysis_readback = "text"
    /\ conversations = <<>>
    /\ code_generations = <<>>
    /\ branches = {"main"}
    /\ pulls = <<>>
    /\ runs = [p \in Procs |-> IdleRun]
    /\ started = 0
    /\ call \in SignatureCalls

Verify ==
    /\ call.fn = "verify_github_signature"
    /\ call.returned = "pending"
    /\ call' = [call EXCEPT !.returned =
           verify_github_signature(call.payload, call.signature, call.secret)]
    /\ UNCHANGED <<analysis_readback, conversations, code_generations,
                   branches, pulls, runs, started>>

SpecSignature == InitSignature /\ [][Verify]_vars

-----------------------------------------------------------------------------
(* Unit level: invoke_with_retry, one attempt at a time *)

\* what an attempt (invoke_llm) may raise
TransientErrors == {"timeout", "rate_limit", "server_error"}
LlmErrors == TransientErrors \cup {"auth", "validation"}

\* response.content of attempt n
Response(n) == [content |-> "completion", attempt |-> n]
NoResponseYet == [content |-> "none", attempt |-> 0]

\* tenacity.RetryError(last_attempt), and no exception
RetryError(e) == [type |-> "RetryError", last_attempt |-> e]
NoError == [type |-> "none", last_attempt |-> "none"]

stop_after_attempt_late(attempt_number, max_attempt_number) ==
    attempt_number >= max_attempt_number + 1

\* tenacity.stop_after_attempt(max_attempt_number)
stop_after_attempt(attempt_number, max_attempt_number) ==
    attempt_number >= max_attempt_number

Min(a, b) == IF a <= b THEN a ELSE b
Max(a, b) == IF a >= b THEN a ELSE b

\* tenacity.wait_exponential(multiplier=1, min=2, max=10): the seconds
\* slept after attempt attempt_number
wait_exponential(attempt_number) ==
    Max(2, Min(2 ^ (attempt_number - 1), 10))

\* the calls invoke_with_retry(messages, max_retries)
RetryCalls ==
    {[fn |-> "invoke_with_retry", max_retries |-> m, attempt_number |-> 1,
      outcomes |-> <<>>, waits |-> <<>>, state |-> "running",
      returned |-> NoResponseYet, raised |-> NoError] : m \in 1..max_retries}

InitRetry ==
    /\ analysis_readback = "text"
    /\ conversations = <<>>
    /\ code_generations = <<>>
    /\ branches = {"main"}
    /\ pulls = <<>>
    /\ runs = [p \in Procs |-> IdleRun]
    /\ started = 0
    /\ call \in RetryCalls

\* one attempt of _invoke_with_retry: invoke_llm returns the completion or
\* raises; tenacity returns the result, or retries after a wait, or gives
\* up with RetryError
InvokeLlm ==
    /\ call.fn = "invoke_with_retry"
    /\ call.state = "running"
    /\ \E outcome \in {"ok"} \cup LlmErrors :
          LET n == call.attempt_number
              tried == [call EXCEPT !.outcomes = Append(@, outcome)]
          IN  call' =
                  IF outcome = "ok"
                  THEN [tried EXCEPT !.state = "returned",
                                     !.returned = Response(n)]
                  ELSE IF stop_after_attempt(n, call.max_retries)
                  THEN [tried EXCEPT !.state = "raised",
                                     !.raised = RetryError(outcome)]
                  ELSE [tried EXCEPT !.waits = Append(@, wait_exponential(n)),
                                     !.attempt_number = n + 1]
    /\ UNCHANGED <<analysis_readback, conversations, code_generations,
                   branches, pulls, runs, started>>

\* invoke_with_retry is a synchronous loop: an attempt that is due is made
SpecRetry == InitRetry /\ [][InvokeLlm]_vars /\ WF_vars(InvokeLlm)

-----------------------------------------------------------------------------
(* Properties *)

IsComment(c) == c.op = "create_issue_comment"
IsLabelAdd(c) == c.op = "add_labels_to_issue"
IsLabelRemove(c) == c.op = "remove_labels_from_issue"

Comments(r) == SelectSeq(r.vcs_calls, IsComment)
LabelAdds(r) == SelectSeq(r.vcs_calls, IsLabelAdd)
LabelRemoves(r) == SelectSeq(r.vcs_calls, IsLabelRemove)

NoDuplicates(seq) ==
    \A i, j \in 1..Len(seq) : seq[i] = seq[j] => i = j

\* worker p has just taken a step
Stepped(p) == runs'[p] # runs[p]

\* the Product Owner handler of run r has returned its state to the gateway
Acted(r) ==
    /\ r.pc = "done"
    /\ r.handler \in {"handle_new_issue", "handle_issue_comment"}
    /\ r.response.status = "success"

\* C1: a delivery whose signature check returns false is answered 401 in
\* the step that receives it, before any routing: no handler is chosen,
\* the worker has made no store write, no VCS call and no reasoning call,
\* and no table, branch or pull request has changed.
C1_InvalidSignatureShortCircuits ==
    [][\A p \in Procs :
          (Stepped(p) /\ runs'[p].verified = "False") =>
              /\ runs'[p].pc = "done"
              /\ runs'[p].response = HTTP401
              /\ runs'[p].handler = "none"
              /\ runs'[p].store_writes = 0
              /\ runs'[p].vcs_calls = <<>>
              /\ runs'[p].llm_calls = 0
              /\ runs'[p].agent_actions = <<>>
              /\ UNCHANGED <<conversations, code_generations, branches, pulls>>
      ]_vars

\* a forged issue-opened delivery has been answered 401 while a
\* conversation exists
C1_Witness ==
    \E p \in Procs :
        /\ runs[p].verified = "False"
        /\ runs[p].event.sig = "forged"
        /\ runs[p].event.action = "opened"
        /\ runs[p].response.status_code = 401
        /\ conversations # <<>>

\* C2: verify_github_signature returns true for the header "sha256=" +
\* hexdigest(secret, body), false for the header computed with the other
\* secret, and false for every header that lacks the "sha256=" prefix.
C2_SignatureVerification ==
    (call.fn = "verify_github_signature" /\ call.returned # "pending") =>
        /\ call.signature = sign(call.secret, call.payload)
               => call.returned = "True"
        /\ \A other \in Secrets \ {call.secret} :
               call.signature = sign(other, call.payload)
                   => call.returned = "False"
        /\ ~startswith(call.signature, Sha256Prefix)
               => call.returned = "False"

\* the call on a header signed with the other secret has returned false
C2_Witness ==
    /\ call.fn = "verify_github_signature"
    /\ call.returned = "False"
    /\ \E other \in Secrets \ {call.secret} :
           call.signature = sign(other, call.payload)

\* the stored row of the conversation run r works on
Stored(r) == conversations[r.conversation_id]

\* C3: when an analysis with needs_clarification=true is acted on, in
\* handle_new_issue from status analyzing or in handle_issue_comment from
\* status needs_clarification, the stored status is needs_clarification,
\* exactly one comment was posted, listing the questions numbered 1..N in
\* order, and exactly one label-add call was made, adding
\* "needs-clarification".
C3_ClarificationRequested ==
    \A p \in Procs :
        LET r == runs[p] IN
        ( /\ Acted(r)
          /\ r.analysis.needs_clarification
          /\ \/ r.handler = "handle_new_issue"
                    /\ r.conversation.status = "analyzing"
             \/ r.handler = "handle_issue_comment"
                    /\ r.conversation.status = "needs_clarification" )
        => /\ Stored(r).status = "needs_clarification"
           /\ Len(Comments(r)) = 1
           /\ Comments(r)[1].body.lines = enumerate(r.analysis.questions)
           /\ LabelAdds(r) = <<AddLabels(r.event.issue_number,
                                         <<"needs-clarification">>)>>

\* C4: whenever an analysis with is_complete=true is acted on, whatever
\* its other fields, the stored status is ready_for_dev, the
\* "needs-clarification" label was removed, and one label-add call was
\* made that holds each suggested label and "ready-for-dev" exactly once.
C4_ReadyForDevelopment ==
    \A p \in Procs :
        LET r == runs[p] IN
        (Acted(r) /\ r.analysis.is_complete)
        => /\ Stored(r).status = "ready_for_dev"
           /\ LabelRemoves(r) = <<RemoveLabels(r.event.issue_number,
                                               <<"needs-clarification">>)>>
           /\ Len(LabelAdds(r)) = 1
           /\ Range(LabelAdds(r)[1].labels) =
                  Range(r.analysis.suggested_labels) \cup {"ready-for-dev"}
           /\ NoDuplicates(LabelAdds(r)[1].labels)

\* C5: the Developer agent is invoked by a label-added delivery only when
\* the status of the conversation that handle_label_added read is
\* ready_for_dev.
C5_CodeAgentOnlyWhenReady ==
    \A p \in Procs :
        runs[p].code_agent_calls # <<>>
            => runs[p].conversation.status = "ready_for_dev"

\* the errors a collaborator raises
CollaboratorErrors ==
    {"APIError", "GithubException", "RetryError", "OutputParserException"}

\* C6: when a "ready-for-dev" label-added delivery has been handled, with
\* no collaborator failing, for a conversation whose stored status is
\* ready_for_dev and whose persisted analysis is complete, the Developer
\* agent was invoked exactly once, with the refined description and the
\* acceptance criteria of the persisted analysis, and a code generation
\* record references the conversation.
C6_ReadyLabelStartsCodeAgent ==
    \A p \in Procs :
        LET r == runs[p]
            n == r.event.issue_number
        IN
        ( /\ r.pc = "done"
          /\ r.handler = "handle_label_added"
          /\ r.event.label_name = "ready-for-dev"
          /\ r.response.message \notin CollaboratorErrors
          /\ \E i \in Matching(n) :
                 /\ conversations[i].status = "ready_for_dev"
                 /\ conversations[i].analysis.repr # "null"
                 /\ conversations[i].analysis.value.is_complete )
        => \E i \in Matching(n) :
              /\ Len(r.code_agent_calls) = 1
              /\ r.code_agent_calls[1] =
                     [conversation_id |-> conversations[i].id,
                      issue_number |-> n,
                      requirements |->
                          conversations[i].analysis.value.refined_description,
                      acceptance_criteria |->
                          conversations[i].analysis.value.acceptance_criteria]
              /\ \E g \in 1..Len(code_generations) :
                     code_generations[g].conversation_id = conversations[i].id

Expected(r) ==
    IF r.pc = "update_analysis"
    THEN [r.conversation EXCEPT !.status = StatusFor(r.handler, r.analysis)]
    ELSE r.conversation

\* status and analysis of a row, however the column is handed back
Content(row) ==
    <<row.status, row.analysis.repr = "null", row.analysis.value>>

WriteSteps == {"update_status", "update_analysis", "pr_update"}

\* C8: no worker writes the status or the analysis of a conversation whose
\* row no longer holds what the worker read (and wrote itself): of two
\* overlapping handlers for one issue, only one commits.
C8_NoLostUpdate ==
    [][\A p \in Procs :
          ( /\ Stepped(p)
            /\ runs[p].pc \in WriteSteps
            /\ conversations' # conversations )
          => Content(Stored(runs[p])) = Content(Expected(runs[p]))
      ]_vars

\* C9: there is at most one conversation per (repository, issue number).
C9_OneConversationPerIssue ==
    \A i, j \in 1..Len(conversations) :
        Key(conversations[i]) = Key(conversations[j]) => i = j

\* two overlapping issue-opened deliveries for one issue: both looked the
\* conversation up before either created it, one has created it and the
\* other has been refused by the store
C9_Witness ==
    \E p, q \in Procs :
        /\ p # q
        /\ runs[p].handler = "handle_new_issue"
        /\ runs[q].handler = "handle_new_issue"
        /\ runs[p].event.issue_number = runs[q].event.issue_number
        /\ runs[p].conversation_id # 0
        /\ runs[q].conversation_id = 0
        /\ runs[q].response.message = "APIError"

\* C10: the redelivery of an issue-opened or comment-created delivery
\* that was answered with a success is dropped before any side effect: the
\* worker handling it posts no issue comment and changes no label.
C10_RedeliveryDeduplicated ==
    \A p \in Procs :
        LET r == runs[p] IN
        ( /\ r.redelivery = "success"
          /\ \/ r.event.type = "issues" /\ r.event.action = "opened"
             \/ r.event.type = "issue_comment" /\ r.event.action = "created" )
        => r.vcs_calls = <<>>

\* the delivery of a "ready-for-dev" label that handle_label_added handles
IsReadyLabel(ev) ==
    ev.type = "issues" /\ ev.action = "labeled" /\ ev.label_name = "ready-for-dev"

\* a code generation record says a pull request was opened for conversation id
HasPullRequest(id) ==
    \E g \in 1..Len(code_generations) :
        /\ code_generations[g].conversation_id = id
        /\ code_generations[g].status = "pr_created"

\* C11: the redelivery of a "ready-for-dev" label-added delivery that was
\* answered with a success, for a conversation that has a pull request,
\* creates no code generation record and opens no pull request: no step of
\* the worker handling it adds a row to code_generations or a pull request.
C11_LabelRedeliveryDeduplicated ==
    [][\A p \in Procs :
          ( /\ Stepped(p)
            /\ runs'[p].redelivery = "success"
            /\ IsReadyLabel(runs'[p].event)
            /\ HasPullRequest(runs'[p].conversation_id) )
          => /\ Len(code_generations') = Len(code_generations)
             /\ Len(pulls') = Len(pulls)
      ]_vars

\* a clarification round: the comment handler calls the reasoning
\* collaborator for a conversation that is in needs_clarification
ClarificationRound ==
    \E p \in Procs :
        /\ runs[p].handler = "handle_issue_comment"
        /\ runs[p].pc = "analyze"
        /\ runs[p].conversation.status = "needs_clarification"
        /\ runs'[p].llm_calls > runs[p].llm_calls

\* C12: the clarification loop is bounded: in every run of the system
\* only finitely many clarification rounds happen, so that from some point
\* on no comment makes a conversation go from needs_clarification to
\* needs_clarification through a new reasoning call.
C12_ClarificationLoopBounded ==
    <>[][~ClarificationRound]_vars

\* C13: in_development is terminal: a conversation whose stored status is
\* in_development keeps that status in every later step, whatever delivery
\* is handled and whichever handler is in flight.
C13_InDevelopmentTerminal ==
    [][\A i \in 1..Len(conversations) :
          conversations[i].status = "in_development"
              => conversations'[i].status = "in_development"
      ]_vars

\* the issues a pull request body references with "Closes #N" / "closes #N"
ClosesReferences(pr_body) ==
    {pr_body[i].number :
        i \in {j \in 1..Len(pr_body) : pr_body[j].keyword \in {"Closes", "closes"}}}

\* the gateway has just answered a pull-request-opened delivery with a success
PrOpenedHandled(p) ==
    /\ Stepped(p)
    /\ runs'[p].event.type = "pull_request"
    /\ runs'[p].event.action = "opened"
    /\ runs'[p].pc = "done"
    /\ runs'[p].response.status = "success"

\* C14: the step that ends the handling of a pull-request-opened delivery
\* leaves every conversation of an issue the body references with
\* "Closes #N" in status in_development, whatever its status was, and
\* leaves every other conversation as it was.
C14_PullRequestMarksInDevelopment ==
    [][\A p \in Procs :
          PrOpenedHandled(p)
          => /\ Len(conversations') = Len(conversations)
             /\ \A i \in 1..Len(conversations) :
                    conversations'[i] =
                        IF conversations[i].issue_number
                               \in ClosesReferences(runs'[p].event.pr_body)
                        THEN [conversations[i] EXCEPT !.status = "in_development"]
                        ELSE conversations[i]
      ]_vars

\* the same for the first reference of the body only
FirstReferenceMarked ==
    [][\A p \in Procs :
          PrOpenedHandled(p)
          => /\ Len(conversations') = Len(conversations)
             /\ \A i \in 1..Len(conversations) :
                    conversations'[i] =
                        IF conversations[i].issue_number
                               = re_search(runs'[p].event.pr_body)
                        THEN [conversations[i] EXCEPT !.status = "in_development"]
                        ELSE conversations[i]
      ]_vars

IsWrite(c) == c.op = "create_or_update_file"
IsCreatePull(c) == c.op = "create_pull_request"

Writes(r) == SelectSeq(r.vcs_calls, IsWrite)
PullsOpened(r) == SelectSeq(r.vcs_calls, IsCreatePull)

\* the files of a generation, implementation files first
FilesOf(g) == g.files_to_create \o g.test_files

\* in run r a file write of create_pull_request has raised
WriteFailed(r) == r.raised # <<>> /\ IsWrite(r.raised[1])

\* the code generation record inserted last
LastGeneration == code_generations[Len(code_generations)]

\* C16: when a file write of create_pull_request raises after k of the n
\* files were committed (0 <= k < n), the attempt opens no pull request;
\* and when create_pull_request returns, its result has status failed and
\* no pull request number, and the code generation record of the attempt
\* has status failed and a non-empty error message.
C16_FileWriteFailureRecorded ==
    \A p \in Procs :
        LET r == runs[p] IN
        WriteFailed(r)
        => /\ Len(Writes(r)) < Len(FilesOf(r.generation))
           /\ PullsOpened(r) = <<>>
           /\ r.result # "none"
                  => /\ r.result = "failed"
                     /\ r.response.pr_number = 0
                     /\ LastGeneration.conversation_id = r.conversation_id
                     /\ LastGeneration.status = "failed"
                     /\ LastGeneration.pr_number = 0
                     /\ ~Falsy(LastGeneration.error_message)

\* the second file write has raised after one file was committed, and
\* create_pull_request has returned
C16_Witness ==
    \E p \in Procs :
        /\ WriteFailed(runs[p])
        /\ Len(Writes(runs[p])) = 1
        /\ runs[p].result = "failed"
        /\ LastGeneration.status = "failed"

\* the number of times a pull request body holds "Closes #n"
ClosesCount(body, n) ==
    Cardinality({i \in 1..Len(body.closes) : body.closes[i] = n})

\* the VCS calls of run r up to the one that opens the pull request
BeforePull(r) ==
    LET at == CHOOSE i \in 1..Len(r.vcs_calls) : IsCreatePull(r.vcs_calls[i])
    IN  SubSeq(r.vcs_calls, 1, at - 1)

\* the step of worker p that runs create_pull_request makes its VCS calls
\* in the order of materialize when no call fails, and never opens the
\* pull request before every file was written
CallsInOrder(p) ==
    LET r == runs'[p]
        g == r.generation
        b == g.branch_name
        n == r.event.issue_number
        files == FilesOf(g)
        pr_number == Len(pulls) + 1
    IN  /\ r.result = "pr_created"
            => /\ SubSeq(r.vcs_calls, 1, Len(r.vcs_calls) - 1) =
                      <<BranchExists(b)>>
                      \o (IF b \in branches THEN <<>> ELSE <<CreateBranch(b)>>)
                      \o [i \in 1..Len(files) |-> WriteFile(files[i], b)]
                      \o <<CreatePull(b, g.pr_description),
                            LinkIssue(pr_number, n)>>
               /\ IsComment(r.vcs_calls[Len(r.vcs_calls)])
               /\ Len(pulls') = pr_number
        /\ PullsOpened(r) # <<>>
            => SelectSeq(BeforePull(r), IsWrite) =
                   [i \in 1..Len(files) |-> WriteFile(files[i], b)]

\* the pull request that the step of worker p has opened and linked
Linked(p) == pulls'[Len(pulls')].body

\* C17: a create_pull_request in which no call fails makes its VCS calls
\* in this order: the branch existence check; create_branch if and only if
\* the branch did not exist; one write per implementation file in list
\* order; one write per test file in list order; the opening of the pull
\* request; the link to the issue, after which the body of the pull
\* request holds "Closes #N" exactly once.  And in no attempt is the pull
\* request opened before every file was written.
C17_MaterializeOrder ==
    [][\A p \in Procs :
          (Stepped(p) /\ runs[p].pc = "create_pull_request")
          => /\ CallsInOrder(p)
             /\ runs'[p].result = "pr_created"
                 => ClosesCount(Linked(p), runs[p].event.issue_number) = 1
      ]_vars

\* C17, amended: the same order of calls; after the link the body of the
\* pull request holds "Closes #N" as many times as the generated
\* description did, and once when the description did not hold it.
C17_MaterializeOrderLinkedOnce ==
    [][\A p \in Procs :
          (Stepped(p) /\ runs[p].pc = "create_pull_request")
          => /\ CallsInOrder(p)
             /\ runs'[p].result = "pr_created"
                 => LET n == runs[p].event.issue_number
                        before == ClosesCount(runs[p].generation.pr_description, n)
                    IN  ClosesCount(Linked(p), n) =
                            IF before = 0 THEN 1 ELSE before
      ]_vars

\* a pull request was opened from a branch that was already there, for a
\* generation whose description held "Closes #1" twice before it was linked
C17_Witness ==
    \E p \in Procs :
        /\ runs[p].result = "pr_created"
        /\ runs[p].generation.pr_description.closes = <<1, 1>>
        /\ runs[p].event.issue_number = 1
        /\ runs[p].vcs_calls[2] # CreateBranch("feature/x")
        /\ pulls[Len(pulls)].body.closes = <<1, 1>>

\* the calls of materialize, steps (a) to (e)
MaterializeOps ==
    {"branch_exists", "create_branch", "create_or_update_file",
     "create_pull_request", "link_issue_to_pr"}

IsMaterialize(c) == c.op \in MaterializeOps
IsCreateGeneration(c) == c.op = "create_code_generation"
IsUpdateGeneration(c) == c.op = "update_code_generation_status"

\* C18: in every code-generation attempt a code generation record is
\* created in status "generated" before the first VCS call of materialize,
\* and when create_pull_request has returned, the record was created once
\* and updated exactly once, to "pr_created" on success or to "failed" on
\* a failure.
C18_RecordCreatedFirst ==
    \A p \in Procs :
        LET r == runs[p]
            creations == SelectSeq(r.calls, IsCreateGeneration)
            updates == SelectSeq(r.calls, IsUpdateGeneration)
        IN  /\ \A i \in 1..Len(r.calls) :
                   IsMaterialize(r.calls[i])
                   => \E j \in 1..(i - 1) :
                          /\ IsCreateGeneration(r.calls[j])
                          /\ r.calls[j].row.status = "generated"
            /\ r.result # "none"
                   => /\ Len(creations) = 1
                      /\ Len(updates) = 1
                      /\ updates[1].status = r.result

\* the attempts of an invoke_with_retry that succeeded
Succeeded(c) == {i \in 1..Len(c.outcomes) : c.outcomes[i] = "ok"}

\* invoke_with_retry has called the reasoning collaborator at most
\* max_retries times, never after a successful attempt, and when it has
\* returned, it has returned the response of that attempt
RetryBounded ==
    call.fn = "invoke_with_retry"
    => /\ Len(call.outcomes) <= call.max_retries
       /\ Succeeded(call) \subseteq {Len(call.outcomes)}
       /\ Succeeded(call) # {}
              => /\ call.state = "returned"
                 /\ call.returned = Response(Len(call.outcomes))
       /\ call.state = "returned" => Succeeded(call) # {}

\* C19: invoke_with_retry terminates: it returns or raises; it calls the
\* reasoning collaborator at most max_retries times, makes no call after
\* the first successful attempt and returns the response of that attempt.
C19_RetryTerminates ==
    /\ []RetryBounded
    /\ <>(call.fn = "invoke_with_retry" /\ call.state # "running")

\* the third attempt succeeded after two failures and two waits
C19_Witness ==
    /\ call.fn = "invoke_with_retry"
    /\ call.outcomes = <<"timeout", "rate_limit", "ok">>
    /\ call.waits = <<2, 2>>
    /\ call.returned = Response(3)

\* C20: only a transient error (timeout, rate limit, server error) leads
\* to another attempt: when an attempt raises an authorization or a
\* validation error, it is the only attempt, no attempt follows it, and
\* that error is what invoke_with_retry raises.
C20_OnlyTransientRetried ==
    call.fn = "invoke_with_retry"
    => \A i \in 1..Len(call.outcomes) :
           call.outcomes[i] \in LlmErrors \ TransientErrors
           => /\ i = 1
              /\ Len(call.outcomes) = 1
              /\ call.state = "raised"
              /\ call.raised.last_attempt = call.outcomes[i]

\* the exception an attempt raises, as invoke_llm re-raises it
LlmError(e) == [type |-> e, last_attempt |-> "none"]

\* C21: when every attempt of invoke_with_retry has failed, the error it
\* raises to its caller is the error the last attempt raised, itself and
\* not an error that wraps it.
C21_LastErrorSurfaced ==
    (call.fn = "invoke_with_retry" /\ call.state = "raised")
    => call.raised = LlmError(call.outcomes[Len(call.outcomes)])

\* the response of the reasoning collaborator did not parse in run r
ParseFailed(r) == r.response.message = "OutputParserException"

\* C22: a response that fails to parse is not retried: the handler has
\* obtained one response, within max_retries calls, the parse error is
\* raised to the gateway, and nothing follows in that handling: no audit
\* row, no comment, label or other VCS call, and the stored status and
\* analysis of the conversation are what the handler read.
C22_ParseErrorNotRetried ==
    \A p \in Procs :
        LET r == runs[p] IN
        ParseFailed(r)
        => /\ r.pc = "done"
           /\ r.response.status_code = 500
           /\ r.responses = 1
           /\ r.llm_calls <= max_retries
           /\ r.calls = <<>>
           /\ r.vcs_calls = <<>>
           /\ r.agent_actions = <<>>
           /\ r.result = "none"
           /\ Content(Stored(r)) = Content(r.conversation)

\* the second attempt of a comment handler got a response, which did not
\* parse
C22_Witness ==
    \E p \in Procs :
        /\ ParseFailed(runs[p])
        /\ runs[p].handler = "handle_issue_comment"
        /\ runs[p].llm_calls = 2
        /\ Stored(runs[p]).status = "needs_clarification"

-----------------------------------------------------------------------------
(* The gateway's answers *)

\* the answers github_webhook gives to a delivery whose signature verified
VerifiedAnswer(resp) ==
    \/ resp.status_code = 200 /\ resp.status \in {"success", "ignored"}
    \/ resp.status_code = 500 /\ resp.status = "error"

\* C23: every delivery whose signature verified is answered once, with 200
\* and status success or ignored, or with 500 and status error: a failure
\* of the body parse, of create_agents or of a handler ends in the 500
\* answer, a handler under way can always take its next step, and 401 is
\* answered only when the signature check returned false.
C23_VerifiedDeliveryAnswered ==
    \A p \in Procs :
        LET r == runs[p] IN
        /\ (r.pc = "done" /\ r.verified = "True") => VerifiedAnswer(r.response)
        /\ (r.response.status_code = 401) => r.verified = "False"
        /\ (r.pc \notin {"idle", "done"})
           => (r.verified = "True" /\ r.response = NoResponse /\ ENABLED Handle(p, TRUE))

\* a signed delivery whose body is not JSON has been answered 500
C23_Witness ==
    \E p \in Procs :
        /\ runs[p].pc = "done"
        /\ runs[p].verified = "True"
        /\ runs[p].event.json = "invalid"
        /\ runs[p].response = HTTP500("JSONDecodeError")

-----------------------------------------------------------------------------
(* An analysis neither complete nor in need of clarification *)

\* the handler of a new issue or of a comment has acted on its analysis
\* and returned
ActedOn(r) ==
    /\ r.pc = "done"
    /\ r.handler \in {"handle_new_issue", "handle_issue_comment"}
    /\ r.response.status = "success"

\* C24: after handle_new_issue or handle_issue_comment has acted on an
\* analysis with needs_clarification false and is_complete false, the
\* stored status of the conversation is analyzing, and no comment was
\* posted and no label added or removed.
C24_IncompleteStaysAnalyzing ==
    \A p \in Procs :
        LET r == runs[p] IN
        ( /\ ActedOn(r)
          /\ ~r.analysis.needs_clarification
          /\ ~r.analysis.is_complete )
        => /\ Stored(r).status = "analyzing"
           /\ r.vcs_calls = <<>>

-----------------------------------------------------------------------------
(* Headers that are not the signature *)

\* C25: verify_github_signature returns false, and does not raise, for
\* every header that is not exactly "sha256=" followed by the hex digest of
\* the body under the secret; so it does for that header followed by "="
\* and more text.
C25_MalformedHeaderRejected ==
    ( /\ call.fn = "verify_github_signature"
      /\ call.returned # "pending"
      /\ call.signature # sign(call.secret, call.payload) )
    => call.returned = "False"

-----------------------------------------------------------------------------
(* Deliveries whose body cannot be read *)

\* C26: a delivery whose signature verified and whose body is not a JSON
\* object is answered 200 with status ignored, and its handling makes no
\* call to the store, the reasoning or the VCS collaborator.
C26_MalformedDeliveryIgnored ==
    \A p \in Procs :
        LET r == runs[p] IN
        (r.pc = "done" /\ r.verified = "True" /\ r.event.json # "object")
        => /\ r.response.status_code = 200
           /\ r.response.status = "ignored"
           /\ r.calls = <<>>
           /\ r.llm_calls = 0
           /\ r.store_writes = 0

-----------------------------------------------------------------------------
(* The turns of a conversation *)

\* C27: when handle_new_issue or handle_issue_comment has acted on an
\* analysis with needs_clarification true, the stored conversation has one
\* more turn, its last, and that turn holds the questions of the analysis.
C27_TurnPerClarificationRound ==
    \A p \in Procs :
        LET r == runs[p]
            turns == Stored(r).turns
        IN
        (ActedOn(r) /\ r.analysis.needs_clarification)
        => /\ Len(turns) = Len(r.conversation.turns) + 1
           /\ turns[Len(turns)].agent_questions = r.analysis.questions

-----------------------------------------------------------------------------
(* Comments nobody is waiting for *)

\* the conversation handle_issue_comment finds is missing, or its status
\* is not needs_clarification
NotAwaited(n) ==
    \/ get_conversation(n) = NoRow
    \/ get_conversation(n).status # "needs_clarification"

\* C28: when handle_issue_comment looks up the conversation of a
\* comment-created delivery and there is none, or its status is not
\* needs_clarification, the delivery ends in that step: the Requirements
\* Agent is not invoked, nothing is written to the store, no comment or
\* label is posted, no conversation changes, and the answer is 200
\* "ignored" when the lookup returned.
C28_UnawaitedCommentIgnored ==
    [][\A p \in Procs :
          ( /\ runs[p].pc = "comment_get"
            /\ Stepped(p)
            /\ NotAwaited(runs[p].event.issue_number) )
          => /\ runs'[p].pc = "done"
             /\ runs'[p].llm_calls = 0
             /\ runs'[p].store_writes = 0
             /\ runs'[p].vcs_calls = <<>>
             /\ runs'[p].agent_actions = <<>>
             /\ UNCHANGED <<conversations, code_generations, branches, pulls>>
             /\ runs'[p] # Raise(runs[p], "APIError")
                => /\ runs'[p].response.status_code = 200
                   /\ runs'[p].response.status = "ignored"
      ]_vars

\* a user's comment on an issue whose conversation is ready_for_dev has
\* been ignored
C28_Witness ==
    \E p \in Procs :
        /\ runs[p].event.type = "issue_comment"
        /\ runs[p].event.action = "created"
        /\ runs[p].event.user_type # "Bot"
        /\ runs[p].response = Ignored("No active conversation")
        /\ \E i \in Matching(runs[p].event.issue_number) :
               conversations[i].status = "ready_for_dev"

-----------------------------------------------------------------------------
(* The label handler and the conversation *)

\* C29: no step of the handling of a label-added delivery, from the
\* gateway to the end of handle_label_added, changes a conversation:
\* whatever the label and whether the pull request was created, failed or
\* was not attempted, the stored status and analysis stay as they were.
C29_LabelKeepsConversation ==
    [][\A p \in Procs :
          ( /\ Stepped(p)
            /\ runs'[p].event.type = "issues"
            /\ runs'[p].event.action = "labeled" )
          => UNCHANGED conversations
      ]_vars

\* handle_label_added has created a pull request and the conversation is
\* still ready_for_dev
C29_Witness ==
    \E p \in Procs :
        LET r == runs[p] IN
        /\ r.pc = "done"
        /\ r.handler = "handle_label_added"
        /\ r.result = "pr_created"
        /\ HasPullRequest(r.conversation_id)
        /\ Stored(r).status = "ready_for_dev"

-----------------------------------------------------------------------------
(* Routing *)

\* the event types and actions for which the gateway calls the orchestrator
Routed ==
    {<<"issues", "opened">>, <<"issues", "labeled">>,
     <<"issue_comment", "created">>, <<"pull_request", "opened">>}

\* C30: when the gateway has read a delivery and created the agents, it
\* invokes an orchestrator handler only for (issues, opened), (issues,
\* labeled), (issue_comment, created) and (pull_request, opened); a ping
\* is answered success; every other event type, and every other action of
\* those types, is answered 200 "ignored" in the step that receives it,
\* with no handler invoked and no conversation changed.
C30_OnlyRoutedEventsHandled ==
    [][\A p \in Procs :
          LET r == runs'[p]
              ev == r.event
          IN
          ( /\ Stepped(p)
            /\ runs[p].pc \in {"idle", "done"}
            /\ r.verified = "True"
            /\ ev.json = "object"
            /\ r.create_agents = "returns" )
          => /\ r.handler # "none" => <<ev.type, ev.action>> \in Routed
             /\ ev.type = "ping" => r.response = Success("Pong!")
             /\ (ev.type # "ping" /\ <<ev.type, ev.action>> \notin Routed)
                => /\ r.pc = "done"
                   /\ r.response.status_code = 200
                   /\ r.response.status = "ignored"
                   /\ r.handler = "none"
                   /\ UNCHANGED conversations
      ]_vars

-----------------------------------------------------------------------------
(* Unit level: the ConversationState object, add_turn and update_analysis *)

MaxTurns == 3

\* Optional[List[str]]: None, or a list
NoneList == [is_none |-> TRUE, value |-> <<>>]
SomeList(l) == [is_none |-> FALSE, value |-> l]

\* ConversationTurn(turn_number, agent_questions, user_responses)
ConversationTurn(turn_number, agent_questions, user_responses) ==
    [turn_number |-> turn_number, agent_questions |-> agent_questions,
     user_responses |-> user_responses]

\* ConversationState(issue_id, issue_number, repo_full_name): the defaults
\* of the other fields
ConversationState(n) ==
    [fn |-> "ConversationState", issue_id |-> IssueId(n), issue_number |-> n,
     repo_full_name |-> Repo, status |-> "analyzing", turns |-> <<>>,
     current_analysis |-> NullColumn]

add_turn_numbered_by_length(self, agent_questions, user_responses) ==
    LET turn == ConversationTurn(Len(self.turns), agent_questions,
                                 user_responses)
    IN  [self EXCEPT !.turns = Append(@, turn)]

\* ConversationState.add_turn: the object after the call
add_turn(self, agent_questions, user_responses) ==
    LET turn == ConversationTurn(Len(self.turns) + 1, agent_questions,
                                 user_responses)
    IN  [self EXCEPT !.turns = Append(@, turn)]

\* ConversationState.update_analysis: the object after the call
update_analysis(self, analysis) ==
    [self EXCEPT !.current_analysis = json_object(analysis),
                 !.status = IF analysis.is_complete THEN "ready_for_dev"
                            ELSE IF analysis.needs_clarification
                            THEN "needs_clarification"
                            ELSE "analyzing"]

InitState ==
    /\ analysis_readback = "text"
    /\ conversations = <<>>
    /\ code_generations = <<>>
    /\ branches = {"main"}
    /\ pulls = <<>>
    /\ runs = [p \in Procs |-> IdleRun]
    /\ started = 0
    /\ call \in {ConversationState(n) : n \in Issues}

\* a call of add_turn on the object
AddTurn ==
    /\ call.fn = "ConversationState"
    /\ Len(call.turns) < MaxTurns
    /\ \E a \in Analyses, u \in {NoneList, SomeList(<<"r1">>)} :
           call' = add_turn(call, a.questions, u)
    /\ UNCHANGED <<analysis_readback, conversations, code_generations,
                   branches, pulls, runs, started>>

\* a call of update_analysis on the object
UpdateAnalysisOfState ==
    /\ call.fn = "ConversationState"
    /\ \E a \in Analyses : call' = update_analysis(call, a)
    /\ UNCHANGED <<analysis_readback, conversations, code_generations,
                   branches, pulls, runs, started>>

NextState == AddTurn \/ UpdateAnalysisOfState

SpecState == InitState /\ [][NextState]_vars

\* the turns are numbered 1, 2, ... in list order
Numbered(turns) == \A i \in 1..Len(turns) : turns[i].turn_number = i

\* C31: on a ConversationState created with no turns, after any calls of
\* add_turn the i-th turn of the list has turn_number i, and every call
\* appends exactly one turn and leaves the turns before it as they were.
C31_TurnsNumberedAndAppended ==
    /\ [](call.fn = "ConversationState" => Numbered(call.turns))
    /\ [][(call.fn = "ConversationState" /\ call'.turns # call.turns)
          => /\ Len(call'.turns) = Len(call.turns) + 1
             /\ SubSeq(call'.turns, 1, Len(call.turns)) = call.turns
         ]_vars

\* three turns have been added, the second with responses
C31_Witness ==
    /\ call.fn = "ConversationState"
    /\ Len(call.turns) = MaxTurns
    /\ ~call.turns[2].user_responses.is_none
    /\ call.turns[3].agent_questions # <<>>

-----------------------------------------------------------------------------
(* The gateways of the child instances *)

\* a handler function that ends without a return statement: FastAPI
\* answers 200 with the body null, which has no status field
NullResponse == JSONResponse(200, NoneStr, NoneStr)

\* test-child/api/webhooks.py github_webhook, up to the first call that
\* touches a collaborator
test_child_github_webhook(r0) ==
    LET ev == r0.event
        verified == verify_github_signature(BodyOf(ev), SignatureOf(ev),
                                            WebhookSecret)
        r == [r0 EXCEPT !.verified = verified]
    IN  IF verified = "TypeError" THEN Raise(r, "TypeError")
        ELSE IF verified = "False" THEN Finish(r, HTTP401)
        ELSE IF ev.json # "object" THEN Raise(r, "JSONDecodeError")
        ELSE IF r.create_agents = "raises" THEN Raise(r, "GithubException")
        ELSE IF ev.type = "issues"
        THEN IF ev.action = "opened"
             THEN Goto([r EXCEPT !.handler = "handle_new_issue"],
                       "get_or_create")
             ELSE Finish(r, NullResponse)
        ELSE IF ev.type = "ping"
        THEN Finish(r, Success("Pong from test-child e-commerce instance!"))
        ELSE Finish(r, Ignored("Event type not handled"))

\* templates/child-template/api/webhooks.py github_webhook, likewise
child_template_github_webhook(r0) ==
    LET ev == r0.event
        verified == verify_github_signature(BodyOf(ev), SignatureOf(ev),
                                            WebhookSecret)
        r == [r0 EXCEPT !.verified = verified]
    IN  IF verified = "TypeError" THEN Raise(r, "TypeError")
        ELSE IF verified = "False" THEN Finish(r, HTTP401)
        ELSE IF ev.json # "object" THEN Raise(r, "JSONDecodeError")
        ELSE IF r.create_agents = "raises" THEN Raise(r, "GithubException")
        ELSE IF ev.type = "issues"
        THEN IF ev.action = "opened"
             THEN Goto([r EXCEPT !.handler = "handle_new_issue"],
                       "get_or_create")
             ELSE Finish(r, NullResponse)
        ELSE IF ev.type = "ping" THEN Finish(r, Success("Pong!"))
        ELSE Finish(r, Ignored("Event type not handled"))

\* the request run r serves, as it arrives at a gateway
Request(r) ==
    [IdleRun EXCEPT !.event = r.event, !.redelivery = r.redelivery,
                    !.create_agents = r.create_agents]

\* a child gateway given the request of run r chooses the handler the
\* mother gateway chose, and when it answers without a handler the mother
\* gateway has answered with the same status
RoutesAlike(child, r) ==
    /\ child.handler = r.handler
    /\ child.pc = "done"
       => (r.pc = "done" /\ child.response.status = r.response.status)

\* C32: for every delivery whose signature verified, the gateways of
\* test-child and of the child template invoke the orchestrator handler
\* the mother gateway invokes and answer with the same status.
C32_ChildGatewaysRouteAlike ==
    \A p \in Procs :
        LET r == runs[p] IN
        r.verified = "True"
        => /\ RoutesAlike(test_child_github_webhook(Request(r)), r)
           /\ RoutesAlike(child_template_github_webhook(Request(r)), r)

-----------------------------------------------------------------------------
(* The stored status and what the issue shows *)

\* run r has posted a comment of this kind and added this label
Shown(r, kind, label) ==
    /\ \E i \in 1..Len(Comments(r)) : Comments(r)[i].body.kind = kind
    /\ \E i \in 1..Len(LabelAdds(r)) :
           \E j \in 1..Len(LabelAdds(r)[i].labels) :
               LabelAdds(r)[i].labels[j] = label

\* C33: after handle_new_issue or handle_issue_comment has returned
\* normally, the stored status is needs_clarification exactly when the
\* clarification comment was posted and "needs-clarification" was added,
\* and ready_for_dev exactly when the refined-requirements comment was
\* posted and "ready-for-dev" was added, for every analysis.
C33_StatusAgreesWithIssue ==
    \A p \in Procs :
        LET r == runs[p] IN
        Acted(r)
        => /\ Stored(r).status = "needs_clarification"
                  <=> Shown(r, "clarification", "needs-clarification")
           /\ Stored(r).status = "ready_for_dev"
                  <=> Shown(r, "refined", "ready-for-dev")

-----------------------------------------------------------------------------
(* One status function *)

\* C34: the status ConversationState.update_analysis derives from an
\* analysis is the status handle_issue_workflow persists for it and the
\* status handle_issue_comment persists for it, for each combination of
\* needs_clarification and is_complete.
C34_OneStatusFunction ==
    (call.fn = "ConversationState" /\ call.current_analysis.repr = "object")
    => LET analysis == call.current_analysis.value IN
       /\ call.status = StatusFor("handle_new_issue", analysis)
       /\ call.status = StatusFor("handle_issue_comment", analysis)

-----------------------------------------------------------------------------
(* A reasoning call that fails *)

\* the reasoning call of the Product Owner handler of run r failed on
\* every attempt, or its response did not parse
ReasoningFailed(r) ==
    /\ r.pc = "done"
    /\ r.handler \in {"handle_new_issue", "handle_issue_comment"}
    /\ r.response.message \in {"RetryError", "OutputParserException"}

\* C35: when the reasoning call of handle_new_issue or of
\* handle_issue_comment fails on every attempt, or its response does not
\* parse, the delivery is answered 500, no comment is posted and no label
\* is added or removed, and the stored status and analysis are those the
\* handler read before the call: needs_clarification for a comment,
\* analyzing with no analysis for a conversation it has just created.
C35_ReasoningFailureLeavesConversation ==
    \A p \in Procs :
        LET r == runs[p] IN
        ReasoningFailed(r)
        => /\ r.response.status_code = 500
           /\ r.response.status = "error"
           /\ r.vcs_calls = <<>>
           /\ r.agent_actions = <<>>
           /\ Content(Stored(r)) = Content(r.conversation)
           /\ r.handler = "handle_issue_comment"
              => Stored(r).status = "needs_clarification"
           /\ r.store_writes > 0
              => (Stored(r).status = "analyzing" /\ Stored(r).analysis = NullColumn)

\* every attempt of the reasoning call failed while a comment was handled
C35_Witness ==
    \E p \in Procs :
        /\ ReasoningFailed(runs[p])
        /\ runs[p].handler = "handle_issue_comment"
        /\ runs[p].response.message = "RetryError"
        /\ runs[p].llm_calls = max_retries

-----------------------------------------------------------------------------
(* The result of create_pull_request, the store and the VCS *)

\* a code generation record of the conversation of run r with this status
\* and pull request number
Recorded(r, status, pr_number) ==
    \E g \in 1..Len(code_generations) :
        /\ code_generations[g].conversation_id = r.conversation_id
        /\ code_generations[g].status = status
        /\ code_generations[g].pr_number = pr_number

\* C36: when create_pull_request has returned, a pull request opened
\* during the call means that the result and a code generation record
\* have status pr_created with the number of that pull request, and a
\* result with status failed means that no pull request was opened during
\* the call.
C36_ResultAgreesWithVcs ==
    \A p \in Procs :
        LET r == runs[p] IN
        (r.handler = "handle_label_added" /\ r.result # "none")
        => /\ PullsOpened(r) # <<>>
              => /\ r.result = "pr_created"
                 /\ r.response.pr_number = Len(pulls)
                 /\ Recorded(r, "pr_created", Len(pulls))
           /\ r.result = "failed" => PullsOpened(r) = <<>>

-----------------------------------------------------------------------------
(* One record per attempt *)

\* C37: a call of create_pull_request that returns inserts exactly one
\* code generation record, whichever call of the attempt failed.
C37_OneRecordPerAttempt ==
    [][\A p \in Procs :
          ( /\ runs[p].pc = "create_pull_request"
            /\ runs'[p].result # "none" )
          => Len(code_generations') = Len(code_generations) + 1
      ]_vars

-----------------------------------------------------------------------------
(* A label on an issue that was never analysed *)

\* C38: when handle_label_added, for the label "ready-for-dev", reads a
\* conversation whose analysis column is null, it returns None without
\* raising: the delivery is answered 200 "ignored" in that step, the
\* Developer agent is not invoked and nothing is written.
C38_UnanalysedIssueIgnored ==
    [][\A p \in Procs :
          LET n == runs[p].event.issue_number IN
          ( /\ runs[p].pc = "label_get"
            /\ Stepped(p)
            /\ runs'[p] # Raise(runs[p], "APIError")
            /\ get_conversation(n) # NoRow
            /\ get_conversation(n).analysis.repr = "null" )
          => /\ runs'[p].pc = "done"
             /\ runs'[p].response.status_code = 200
             /\ runs'[p].response.status = "ignored"
             /\ runs'[p].code_agent_calls = <<>>
             /\ runs'[p].store_writes = 0
             /\ UNCHANGED <<conversations, code_generations, branches, pulls>>
      ]_vars

-----------------------------------------------------------------------------
(* From the pull request to in_development *)

\* the body of a pull request as the gateway reads it: its references
body_text(body) ==
    [i \in 1..Len(body.closes) |-> Reference("Closes", body.closes[i])]

\* the deliveries GitHub makes for a pull request: "opened" with the body
\* given to create_pull_request, then "edited" with the new body when
\* link_issue_to_pr has edited it
Notifications(pull) ==
    <<Event("pull_request", "opened", 0, "none", "none",
            body_text(pull.opened_with), "valid")>>
    \o (IF pull.body # pull.opened_with
        THEN <<Event("pull_request", "edited", 0, "none", "none",
                     body_text(pull.body), "valid")>>
        ELSE <<>>)

\* GitHub delivers the next notification of a pull request to a free worker
PullRequestEvent(p) ==
    /\ runs[p].pc \in {"idle", "done"}
    /\ \E k \in 1..Len(pulls) :
          LET d == pulls[k].delivered IN
          /\ d < Len(Notifications(pulls[k]))
          /\ runs' = [runs EXCEPT ![p] =
                 github_webhook([IdleRun EXCEPT
                                    !.event = Notifications(pulls[k])[d + 1]])]
          /\ pulls' = [pulls EXCEPT ![k].delivered = d + 1]
    /\ UNCHANGED <<analysis_readback, conversations, code_generations,
                   branches, started, call>>

\* issue 1 is opened, once, and labelled "ready-for-dev"
DevelopmentEvents ==
    {ev \in OverlapEvents : ev.type = "issues"}

IssueEvent(p) ==
    \E ev \in DevelopmentEvents :
        /\ ev.action = "opened" <=> conversations = <<>>
        /\ Receive(p, ev, "no")

\* the steps of the handlers, every call succeeding
Develop(p) ==
    \/ GetOrCreate(p)
    \/ CreateConversation(p)
    \/ Analyze(p, FALSE)
    \/ UpdateStatus(p)
    \/ UpdateAnalysis(p)
    \/ TakeAction(p, FALSE)
    \/ LabelGet(p)
    \/ GenerateCode(p, FALSE)
    \/ CreatePullRequest(p, FALSE)
    \/ PrGet(p)
    \/ PrUpdate(p)

NextDevelopment ==
    \/ IssueEvent("w1")
    \/ PullRequestEvent("w1")
    \/ Develop("w1")

\* a handler under way goes on, and GitHub delivers its notifications
SpecDevelopment ==
    /\ Init
    /\ [][NextDevelopment]_vars
    /\ WF_vars(Develop("w1"))
    /\ WF_vars(PullRequestEvent("w1"))

\* the conversation of issue n is in in_development
InDevelopment(n) ==
    \E i \in Matching(n) : conversations[i].status = "in_development"

\* C39: after a code generation for issue 1 has succeeded and its pull
\* request was created, the conversation of issue 1 eventually is in
\* in_development.
C39_PullRequestLeadsToInDevelopment ==
    (\E p \in Procs : /\ runs[p].result = "pr_created"
                      /\ runs[p].event.issue_number = 1)
    ~> InDevelopment(1)

====
